---- MODULE Spec2Model ----
(***************************************************************************)
(* Model of src/transcripcion.py: transcribir_mp3_a_txt and the command    *)
(* line block that calls it.  One invocation is a short straight-line      *)
(* program over a shared file system and an opaque Whisper library.        *)
(*                                                                         *)
(* Strings are sequences of one-character strings.  A path component is a  *)
(* sequence of tokens in which "." is the dot character and every other    *)
(* token stands for a non-empty run of characters without a dot.           *)
(***************************************************************************)
EXTENDS Integers, Sequences, FiniteSets, TLC

\* ------------------------------------------------------------------ bounds
MaxTextLen == 3

Procs == {1, 2}

\* ---------------------------------------------------------------- optionals
\* Optional[...] : None is the empty set, a present value is a singleton.
None == {}

Some(x) == {x}

The(o) == CHOOSE x \in o : TRUE

\* ------------------------------------------------------------------ strings
IsSpace(c) == c \in {" ", "\n", "\t"}

RECURSIVE LStrip(_)
LStrip(s) == IF s # <<>> /\ IsSpace(Head(s)) THEN LStrip(Tail(s)) ELSE s

RECURSIVE RStrip(_)
RStrip(s) ==
  IF s # <<>> /\ IsSpace(s[Len(s)]) THEN RStrip(SubSeq(s, 1, Len(s) - 1)) ELSE s

\* str.strip()
Strip(s) == RStrip(LStrip(s))

LowerChar(c) ==
  CASE c = "N" -> "n"
    [] c = "O" -> "o"
    [] c = "E" -> "e"
    [] c = "S" -> "s"
    [] OTHER -> c

\* str.lower()
Lower(s) == [i \in 1..Len(s) |-> LowerChar(s[i])]

\* dict.get(key, default)
Get(d, key, default) == IF key \in DOMAIN d THEN d[key] ELSE default

RECURSIVE SeqsUpTo(_, _)
SeqsUpTo(S, n) ==
  IF n = 0 THEN {<<>>}
  ELSE LET shorter == SeqsUpTo(S, n - 1)
       IN shorter \cup {Append(s, c) : s \in {t \in shorter : Len(t) = n - 1}, c \in S}

\* -------------------------------------------------------------------- paths
\* A path is [abs, parts]; parts is the sequence of components.
Dot == "."

Cwd == << <<"w">> >>

Rel(parts) == [abs |-> FALSE, parts |-> parts]

Abs(parts) == [abs |-> TRUE, parts |-> parts]

\* Path(x): pathlib drops "." components (and repeated separators).
PathOf(raw) ==
  [abs |-> raw.abs, parts |-> SelectSeq(raw.parts, LAMBDA c : c # <<Dot>>)]

\* PurePath.name
NameOf(p) == IF p.parts = <<>> THEN <<>> ELSE p.parts[Len(p.parts)]

\* PurePath.suffix: from the last dot, unless that dot is first or last.
LastDot(name) ==
  IF \E i \in 1..Len(name) : name[i] = Dot
  THEN CHOOSE i \in 1..Len(name) :
         name[i] = Dot /\ \A j \in (i + 1)..Len(name) : name[j] # Dot
  ELSE 0

SuffixOf(name) ==
  LET i == LastDot(name)
  IN IF 1 < i /\ i < Len(name) THEN SubSeq(name, i, Len(name)) ELSE <<>>

\* PurePath.with_suffix(suffix), for a path with a non-empty name.
WithSuffix(p, suffix) ==
  LET name == NameOf(p)
      old  == SuffixOf(name)
      stem == SubSeq(name, 1, Len(name) - Len(old))
  IN [p EXCEPT !.parts = Append(SubSeq(p.parts, 1, Len(p.parts) - 1), stem \o suffix)]

TxtSuffix == <<Dot, "txt">>

\* PurePath.parent: the parent of an empty or root path is the path itself.
ParentOf(p) ==
  IF p.parts = <<>> THEN p
  ELSE [p EXCEPT !.parts = SubSeq(p.parts, 1, Len(p.parts) - 1)]

\* The absolute location a path denotes (the key of the file system map).
Loc(p) == IF p.abs THEN p.parts ELSE Cwd \o p.parts

\* Path.resolve(): absolute form (the model has no symlinks and no "..").
Resolve(p) == Abs(Loc(p))

\* -------------------------------------------------------------- file system
\* A file system maps each existing absolute location to a node.
DirNode == [kind |-> "dir", data |-> <<>>]

FileNode(data) == [kind |-> "file", data |-> data]

Exists(f, loc) == loc \in DOMAIN f

IsDir(f, loc) == Exists(f, loc) /\ f[loc].kind = "dir"

\* Path.is_file()
IsFile(f, loc) == Exists(f, loc) /\ f[loc].kind = "file"

Prefix(loc, n) == SubSeq(loc, 1, n)

Put(f, loc, node) == [l \in DOMAIN f \cup {loc} |-> IF l = loc THEN node ELSE f[l]]

\* errno of walking to the parent of loc: "ok" when the parent is a directory.
WalkParent(f, loc) ==
  IF \E n \in 0..(Len(loc) - 1) : IsFile(f, Prefix(loc, n)) THEN "NotADirectoryError"
  ELSE IF \E n \in 0..(Len(loc) - 1) : ~Exists(f, Prefix(loc, n)) THEN "FileNotFoundError"
  ELSE "ok"

\* os.mkdir(loc): the error it raises, or "ok".
OsMkdir(f, loc) ==
  IF WalkParent(f, loc) # "ok" THEN WalkParent(f, loc)
  ELSE IF Exists(f, loc) THEN "FileExistsError"
  ELSE "ok"

\* open(loc, "w") followed by write(text): the error raised, or "ok".
OpenForWrite(f, loc) ==
  IF WalkParent(f, loc) # "ok" THEN WalkParent(f, loc)
  ELSE IF IsDir(f, loc) THEN "IsADirectoryError"
  ELSE "ok"

\* Variant: the file is opened for appending.
WriteText_Append(f, loc, text) ==
  Put(f, loc, FileNode((IF IsFile(f, loc) THEN f[loc].data ELSE << >>) \o text))

\* Path.write_text(text): the whole file is replaced by text.
WriteText(f, loc, text) == Put(f, loc, FileNode(text))

\* ----------------------------------------------------------- input universe
w == <<"w">>

audio == <<"audio">>

out == <<"out">>

deep == <<"deep">>

a_mp3 == <<"a", Dot, "mp3">>

a_txt == <<"a", Dot, "txt">>

nota_mp3 == <<"nota", Dot, "mp3">>

missing_mp3 == <<"missing", Dot, "mp3">>

voz == <<"voz">>

result_txt == <<"result", Dot, "txt">>

Mp3Data == <<"ID3">>

OldData == <<"o", "l", "d">>

\* Always present: /, /w (the working directory), /w/a.mp3, /w/audio/,
\* /w/audio/nota.mp3 and /w/audio/voz, an audio file without extension.
BaseFS ==
  (<< >> :> DirNode) @@ (<<w>> :> DirNode) @@ (<<w, a_mp3>> :> FileNode(Mp3Data))
  @@ (<<w, audio>> :> DirNode) @@ (<<w, audio, nota_mp3>> :> FileNode(Mp3Data))
  @@ (<<w, audio, voz>> :> FileNode(Mp3Data))

\* /w/a.txt is absent, an old transcript, or a directory; /w/out is absent or
\* an empty directory.
InitFS ==
  { BaseFS @@ x @@ y :
      x \in { << >>, (<<w, a_txt>> :> FileNode(OldData)), (<<w, a_txt>> :> DirNode) },
      y \in { << >>, (<<w, out>> :> DirNode) } }

\* Values a caller passes as ruta_mp3.
SrcPaths ==
  { Rel(<<a_mp3>>), Rel(<< <<Dot>>, a_mp3 >>), Rel(<<audio, nota_mp3>>),
    Abs(<<w, a_mp3>>), Rel(<<audio, voz>>), Rel(<<missing_mp3>>), Rel(<<audio>>) }

\* Values a caller passes as ruta_txt.
DstPaths ==
  { None, Some(Rel(<<out, result_txt>>)), Some(Rel(<<out, deep, result_txt>>)),
    Some(Rel(<<a_mp3, result_txt>>)), Some(Rel(<<audio>>)), Some(Rel(<<a_txt>>)) }

S_es == <<"e", "s">>

S_base == <<"b", "a", "s", "e">>

S_bogus == <<"b", "o", "g", "u", "s">>

S_None == <<"N", "o", "n", "e">>

S_none == <<"n", "o", "n", "e">>

\* Values of the --lenguaje option on the command line.
ArgLenguajes ==
  { S_es, <<"e", "n">>, S_none, S_None, <<"N", "O", "N", "E">>, <<"n", "O", "n", "E">>,
    <<"n", "o", "n">>, <<"n", "o", "n", "e", "s">>, <<>> }

\* Values a caller of the function passes as lenguaje.
Lenguajes == { None, Some(S_es), Some(S_None) }

Modelos == { S_base, S_bogus }

NoOpts == << >>

\* Values a caller of the function passes as **opciones_transcripcion.
Opciones == { NoOpts, [temperature |-> 0], [language |-> <<"e", "n">>] }

TextChars == {" ", "x"}

Texts == SeqsUpTo(TextChars, MaxTextLen)

\* The Whisper library as one invocation meets it: what load_model does for
\* a known selector, what transcribe does, and the dictionary it returns.
WhisperModels == { S_base }

Whispers ==
  { [load |-> "OutOfMemoryError", transcribe |-> "ok", resultado |-> [language |-> S_es]],
    [load |-> "ok", transcribe |-> "DecodeError", resultado |-> [language |-> S_es]],
    [load |-> "ok", transcribe |-> "ok", resultado |-> [language |-> S_es]] }
  \cup { [load |-> "ok", transcribe |-> "ok", resultado |-> [text |-> t, language |-> S_es]] :
           t \in Texts }

\* whisper.load_model(name): the error it raises, or "ok".
LoadModel(wh, name) == IF name \notin WhisperModels THEN "RuntimeError" ELSE wh.load

\* -------------------------------------------------------------------- state
VARIABLES
  fs,        \* the file system shared by all invocations
  fs0,       \* the file system before any invocation ran
  via,       \* per invocation: "cli" (the __main__ block), "api", or "off"
  argv,      \* per invocation: the command line (audio, salida, modelo, lenguaje)
  inv,       \* per invocation: the arguments of transcribir_mp3_a_txt
  whisper,   \* per invocation: what the Whisper library does for it
  pc,        \* per invocation: the statement it is at
  ruta_mp3,  \* local: Path(ruta_mp3)
  ruta_txt,  \* local: the destination path
  mk,        \* progress of mkdir(parents=True): depth tried, retry after parents
  resultado, \* local: the dictionary transcribe returned
  texto,     \* local: the stripped text
  loads,     \* selectors load_model was called with
  calls,     \* argument lists transcribe was called with
  outcome,   \* how the invocation ended
  trace      \* the statements completed, in order

vars ==
  << fs, fs0, via, argv, inv, whisper, pc, ruta_mp3, ruta_txt, mk, resultado, texto,
     loads, calls, outcome, trace >>

NoPath == Rel(<< >>)

NoArgv == [audio |-> NoPath, salida |-> None, modelo |-> None, lenguaje |-> None]

NotCalled ==
  [ruta_mp3 |-> NoPath, ruta_txt |-> None, modelo |-> S_base, lenguaje |-> None,
   opciones |-> NoOpts]

Running == [kind |-> "running", exc |-> "", value |-> NoPath]

Raised(e) == [kind |-> "raised", exc |-> e, value |-> NoPath]

Returned(p) == [kind |-> "returned", exc |-> "", value |-> p]

\* Command lines: --salida, --modelo and --lenguaje may be omitted (None).
Argvs ==
  [audio : SrcPaths, salida : DstPaths, modelo : {None} \cup {Some(m) : m \in Modelos},
   lenguaje : {None} \cup {Some(l) : l \in ArgLenguajes}]

\* Direct calls of the function.
Invs ==
  [ruta_mp3 : SrcPaths, ruta_txt : DstPaths, modelo : Modelos, lenguaje : Lenguajes,
   opciones : Opciones]

\* argparse: type=Path for the paths, the declared defaults for omitted options.
ParseArgs(a) ==
  [audio |-> PathOf(a.audio),
   salida |-> IF a.salida = None THEN None ELSE Some(PathOf(The(a.salida))),
   modelo |-> IF a.modelo = None THEN S_base ELSE The(a.modelo),
   lenguaje |-> IF a.lenguaje = None THEN S_es ELSE The(a.lenguaje)]

Locals0 ==
  /\ ruta_mp3 = [p \in Procs |-> NoPath]
  /\ ruta_txt = [p \in Procs |-> NoPath]
  /\ mk = [p \in Procs |-> [depth |-> 0, up |-> FALSE]]
  /\ resultado = [p \in Procs |-> NoOpts]
  /\ texto = [p \in Procs |-> << >>]
  /\ loads = [p \in Procs |-> << >>]
  /\ calls = [p \in Procs |-> << >>]
  /\ outcome = [p \in Procs |-> Running]
  /\ trace = [p \in Procs |-> << >>]

Only1(x, none) == [p \in Procs |-> IF p = 1 THEN x ELSE none]

\* One invocation (process 1), started from the command line or by a call.
Init ==
  /\ fs0 \in InitFS
  /\ fs = fs0
  /\ \/ /\ via = Only1("cli", "off")
        /\ \E a \in Argvs : argv = Only1(a, NoArgv)
        /\ inv = [p \in Procs |-> NotCalled]
        /\ pc = Only1("main", "off")
     \/ /\ via = Only1("api", "off")
        /\ argv = [p \in Procs |-> NoArgv]
        /\ \E i \in Invs : inv = Only1(i, NotCalled)
        /\ pc = Only1("validate", "off")
  /\ \E wh \in Whispers : whisper = [p \in Procs |-> wh]
  /\ Locals0

\* ------------------------------------------------------------------ actions
Raise(p, e, step) ==
  /\ outcome' = [outcome EXCEPT ![p] = Raised(e)]
  /\ trace' = [trace EXCEPT ![p] = Append(@, step)]
  /\ pc' = [pc EXCEPT ![p] = "done"]

Goto(p, next, step) ==
  /\ trace' = [trace EXCEPT ![p] = Append(@, step)]
  /\ pc' = [pc EXCEPT ![p] = next]
  /\ UNCHANGED outcome

\* Variant: the comparison with "none" is case sensitive.
Normalizar_CaseSensitive(s) == IF s = S_none THEN None ELSE Some(s)

\* line 98: the literal "none", in any letter case, means no language hint.
NormalizarLenguaje(s) == IF Lower(s) = S_none THEN None ELSE Some(s)

\* lines 96-105: parse the command line and call the function.
Main(p) ==
  /\ pc[p] = "main"
  /\ LET args == ParseArgs(argv[p])
     IN inv' = [inv EXCEPT ![p] =
                  [ruta_mp3 |-> args.audio, ruta_txt |-> args.salida,
                   modelo |-> args.modelo, lenguaje |-> NormalizarLenguaje(args.lenguaje),
                   opciones |-> NoOpts]]
  /\ pc' = [pc EXCEPT ![p] = "validate"]
  /\ UNCHANGED << fs, fs0, via, argv, whisper, ruta_mp3, ruta_txt, mk, resultado, texto,
                  loads, calls, outcome, trace >>

\* Variant: exists() in place of is_file().
SourceOk_Exists(f, path) == Exists(f, Loc(path))

\* line 46: ruta_mp3.is_file()
SourceOk(f, path) == IsFile(f, Loc(path))

\* lines 45-47: the source must be an existing regular file.
Validate(p) ==
  /\ pc[p] = "validate"
  /\ ruta_mp3' = [ruta_mp3 EXCEPT ![p] = PathOf(inv[p].ruta_mp3)]
  /\ IF SourceOk(fs, ruta_mp3'[p])
     THEN Goto(p, "dest", "validate")
     ELSE Raise(p, "FileNotFoundError", "validate")
  /\ UNCHANGED << fs, fs0, via, argv, inv, whisper, ruta_txt, mk, resultado, texto,
                  loads, calls >>

\* Variant: ".txt" is added to the name instead of replacing the suffix.
Destino_Appended(mp3, txt) ==
  IF txt = None
  THEN [mp3 EXCEPT !.parts[Len(mp3.parts)] = @ \o TxtSuffix]
  ELSE PathOf(The(txt))

\* lines 49-52: the destination given, or the source with suffix .txt.
Destino(mp3, txt) == IF txt = None THEN WithSuffix(mp3, TxtSuffix) ELSE PathOf(The(txt))

\* Variant: the parent directory is never made.
Dest_SkipMkdir(p) ==
  /\ pc[p] = "dest"
  /\ ruta_txt' = [ruta_txt EXCEPT ![p] = Destino(ruta_mp3[p], inv[p].ruta_txt)]
  /\ pc' = [pc EXCEPT ![p] = "load"]
  /\ UNCHANGED << fs, fs0, via, argv, inv, whisper, ruta_mp3, mk, resultado, texto,
                  loads, calls, outcome, trace >>

Dest(p) ==
  /\ pc[p] = "dest"
  /\ ruta_txt' = [ruta_txt EXCEPT ![p] = Destino(ruta_mp3[p], inv[p].ruta_txt)]
  /\ mk' = [mk EXCEPT ![p] = [depth |-> Len(Loc(ParentOf(ruta_txt'[p]))), up |-> FALSE]]
  /\ pc' = [pc EXCEPT ![p] = "mkdir"]
  /\ UNCHANGED << fs, fs0, via, argv, inv, whisper, ruta_mp3, resultado, texto,
                  loads, calls, outcome, trace >>

\* Variant: exist_ok=False.
ExistOk_Off(f, loc, err) == FALSE

\* line 54, exist_ok=True: an OSError other than FileNotFoundError is
\* swallowed when the location is a directory.
ExistOk(f, loc, err) == err \notin {"ok", "FileNotFoundError"} /\ IsDir(f, loc)

\* line 54 run to completion: Path.mkdir(parents, exist_ok=True) at loc.
RECURSIVE PathMkdir(_, _, _)
PathMkdir(f, loc, parents) ==
  LET err == OsMkdir(f, loc)
  IN IF err = "ok" THEN [err |-> "ok", fs |-> Put(f, loc, DirNode)]
     ELSE IF ExistOk(f, loc, err) THEN [err |-> "ok", fs |-> f]
     ELSE IF err = "FileNotFoundError" /\ parents /\ loc # << >>
       THEN LET up == PathMkdir(f, Prefix(loc, Len(loc) - 1), TRUE)
            IN IF up.err # "ok" THEN up ELSE PathMkdir(up.fs, loc, FALSE)
     ELSE [err |-> err, fs |-> f]

\* Variant: "if not parent.exists(): parent.mkdir(parents=True)", the test in
\* one step and the creation, which fails on an existing directory, in the next.
Mkdir_CheckThenMake(p) ==
  /\ pc[p] = "mkdir"
  /\ LET target == Loc(ParentOf(ruta_txt[p]))
         made   == PathMkdir(fs, target, TRUE)
     IN IF ~mk[p].up
        THEN /\ fs' = fs
             /\ IF Exists(fs, target)
                THEN Goto(p, "load", "mkdir") /\ UNCHANGED mk
                ELSE /\ mk' = [mk EXCEPT ![p] = [depth |-> @.depth, up |-> TRUE]]
                     /\ UNCHANGED << pc, outcome, trace >>
        ELSE /\ UNCHANGED mk
             /\ IF Exists(fs, target)
                THEN fs' = fs /\ Raise(p, "FileExistsError", "mkdir")
                ELSE IF made.err = "ok"
                THEN fs' = made.fs /\ Goto(p, "load", "mkdir")
                ELSE fs' = fs /\ Raise(p, made.err, "mkdir")
  /\ UNCHANGED << fs0, via, argv, inv, whisper, ruta_mp3, ruta_txt, resultado, texto,
                  loads, calls >>

\* line 54: ruta_txt.parent.mkdir(parents=True, exist_ok=True), one os.mkdir
\* per step.  Path.mkdir tries the directory itself; on FileNotFoundError it
\* makes the parent the same way and then tries once more (up).
Mkdir(p) ==
  /\ pc[p] = "mkdir"
  /\ LET target == Loc(ParentOf(ruta_txt[p]))
         loc    == Prefix(target, mk[p].depth)
         err    == OsMkdir(fs, loc)
         made   == err = "ok" \/ ExistOk(fs, loc, err)
     IN /\ fs' = IF err = "ok" THEN Put(fs, loc, DirNode) ELSE fs
        /\ IF made
           THEN IF loc = target
                THEN Goto(p, "load", "mkdir") /\ UNCHANGED mk
                ELSE /\ mk' = [mk EXCEPT ![p] = [depth |-> @.depth + 1, up |-> TRUE]]
                     /\ UNCHANGED << pc, outcome, trace >>
           ELSE IF err = "FileNotFoundError" /\ ~mk[p].up /\ loc # << >>
                THEN /\ mk' = [mk EXCEPT ![p] = [depth |-> @.depth - 1, up |-> FALSE]]
                     /\ UNCHANGED << pc, outcome, trace >>
                ELSE Raise(p, err, "mkdir") /\ UNCHANGED mk
  /\ UNCHANGED << fs0, via, argv, inv, whisper, ruta_mp3, ruta_txt, resultado, texto,
                  loads, calls >>

\* Variant: a failed load is tried a second time.
Load_Retry(p) ==
  /\ pc[p] = "load"
  /\ loads' = [loads EXCEPT ![p] = Append(@, inv[p].modelo)]
  /\ LET err == LoadModel(whisper[p], inv[p].modelo)
     IN IF err = "ok" THEN Goto(p, "transcribe", "load")
        ELSE IF loads[p] = << >> THEN UNCHANGED << pc, outcome, trace >>
        ELSE Raise(p, err, "load")
  /\ UNCHANGED << fs, fs0, via, argv, inv, whisper, ruta_mp3, ruta_txt, mk, resultado,
                  texto, calls >>

\* line 57: modelo_whisper = whisper.load_model(modelo)
Load(p) ==
  /\ pc[p] = "load"
  /\ loads' = [loads EXCEPT ![p] = Append(@, inv[p].modelo)]
  /\ LET err == LoadModel(whisper[p], inv[p].modelo)
     IN IF err = "ok" THEN Goto(p, "transcribe", "load") ELSE Raise(p, err, "load")
  /\ UNCHANGED << fs, fs0, via, argv, inv, whisper, ruta_mp3, ruta_txt, mk, resultado,
                  texto, calls >>

\* Variant: an absent hint is replaced by the default "es".
Llamada_DefaultHint(mp3, lenguaje, opciones) ==
  [audio |-> mp3, language |-> IF lenguaje = None THEN Some(S_es) ELSE lenguaje,
   kwargs |-> opciones]

\* lines 60-62: the arguments of transcribe(str(ruta_mp3), language=lenguaje,
\* **opciones_transcripcion).
Llamada(mp3, lenguaje, opciones) ==
  [audio |-> mp3, language |-> lenguaje, kwargs |-> opciones]

\* line 61: a key "language" among the options repeats the keyword argument.
Repetida(opciones) == "language" \in DOMAIN opciones

\* lines 60-62: resultado = modelo_whisper.transcribe(...)
Transcribe(p) ==
  /\ pc[p] = "transcribe"
  /\ IF Repetida(inv[p].opciones)
     THEN /\ Raise(p, "TypeError", "transcribe")
          /\ UNCHANGED << calls, resultado >>
     ELSE /\ calls' = [calls EXCEPT ![p] =
                         Append(@, Llamada(ruta_mp3[p], inv[p].lenguaje, inv[p].opciones))]
          /\ IF whisper[p].transcribe = "ok"
             THEN /\ resultado' = [resultado EXCEPT ![p] = whisper[p].resultado]
                  /\ Goto(p, "check", "transcribe")
             ELSE /\ Raise(p, whisper[p].transcribe, "transcribe")
                  /\ UNCHANGED resultado
  /\ UNCHANGED << fs, fs0, via, argv, inv, whisper, ruta_mp3, ruta_txt, mk, texto, loads >>

\* Variant: the text is not stripped.
Texto_Unstripped(r) == Get(r, "text", << >>)

\* line 64: texto = resultado.get("text", "").strip()
Texto(r) == Strip(Get(r, "text", << >>))

\* lines 64-67: an empty text is an error.
Check(p) ==
  /\ pc[p] = "check"
  /\ texto' = [texto EXCEPT ![p] = Texto(resultado[p])]
  /\ IF texto'[p] = << >>
     THEN Raise(p, "ValueError", "check")
     ELSE Goto(p, "write", "check")
  /\ UNCHANGED << fs, fs0, via, argv, inv, whisper, ruta_mp3, ruta_txt, mk, resultado,
                  loads, calls >>

\* line 69: ruta_txt.write_text(texto, encoding="utf-8")
Write(p) ==
  /\ pc[p] = "write"
  /\ LET loc == Loc(ruta_txt[p])
         err == OpenForWrite(fs, loc)
     IN IF err = "ok"
        THEN fs' = WriteText(fs, loc, texto[p]) /\ Goto(p, "return", "write")
        ELSE fs' = fs /\ Raise(p, err, "write")
  /\ UNCHANGED << fs0, via, argv, inv, whisper, ruta_mp3, ruta_txt, mk, resultado, texto,
                  loads, calls >>

\* line 70: return ruta_txt.resolve()
Return(p) ==
  /\ pc[p] = "return"
  /\ outcome' = [outcome EXCEPT ![p] = Returned(Resolve(ruta_txt[p]))]
  /\ trace' = [trace EXCEPT ![p] = Append(@, "return")]
  /\ pc' = [pc EXCEPT ![p] = "done"]
  /\ UNCHANGED << fs, fs0, via, argv, inv, whisper, ruta_mp3, ruta_txt, mk, resultado,
                  texto, loads, calls >>

Next ==
  \E p \in Procs :
    \/ Main(p)
    \/ Validate(p)
    \/ Dest(p)
    \/ Mkdir(p)
    \/ Load(p)
    \/ Transcribe(p)
    \/ Check(p)
    \/ Write(p)
    \/ Return(p)

Spec == Init /\ [][Next]_vars

\* ------------------------------------------------- two concurrent invocations
ConcSrcPaths == { Rel(<<a_mp3>>), Rel(<<audio, nota_mp3>>), Rel(<<a_txt>>) }

ConcDstPaths ==
  { None, Some(Rel(<<out, result_txt>>)), Some(Rel(<<out, deep, result_txt>>)),
    Some(Rel(<<out>>)) }

ConcWhispers ==
  { wh \in Whispers :
      \/ wh.load # "ok"
      \/ /\ wh.transcribe = "ok"
         /\ "text" \in DOMAIN wh.resultado
         /\ wh.resultado.text \in { <<" ">>, <<"x">>, <<"x", "x">> } }

\* Process 1 runs the script, process 2 calls the function; both are started.
InitConc ==
  /\ fs0 \in InitFS
  /\ fs = fs0
  /\ via = [p \in Procs |-> IF p = 1 THEN "cli" ELSE "api"]
  /\ \E a \in [audio : ConcSrcPaths, salida : ConcDstPaths, modelo : {None},
               lenguaje : {None}] :
       argv = Only1(a, NoArgv)
  /\ \E i \in [ruta_mp3 : ConcSrcPaths, ruta_txt : ConcDstPaths, modelo : {S_base},
               lenguaje : {Some(S_es)}, opciones : {NoOpts}] :
       inv = [p \in Procs |-> IF p = 1 THEN NotCalled ELSE i]
  /\ whisper \in [Procs -> ConcWhispers]
  /\ pc = [p \in Procs |-> IF p = 1 THEN "main" ELSE "validate"]
  /\ Locals0

SpecConc == InitConc /\ [][Next]_vars

\* ------------------------------------------------ one invocation on its own
\* The arguments the function is called with by invocation p.
Called(a, i, v) ==
  IF v = "cli"
  THEN [ruta_mp3 |-> ParseArgs(a).audio, ruta_txt |-> ParseArgs(a).salida,
        modelo |-> ParseArgs(a).modelo,
        lenguaje |-> NormalizarLenguaje(ParseArgs(a).lenguaje), opciones |-> NoOpts]
  ELSE i

\* lines 45-70 run from file system f with nothing else running: the outcome
\* and the file system left behind.
Alone(f, i, wh) ==
  LET mp3   == PathOf(i.ruta_mp3)
      txt   == Destino(mp3, i.ruta_txt)
      dirs  == PathMkdir(f, Loc(ParentOf(txt)), TRUE)
      lerr  == LoadModel(wh, i.modelo)
      text  == Texto(wh.resultado)
      werr  == OpenForWrite(dirs.fs, Loc(txt))
  IN IF ~SourceOk(f, mp3) THEN [outcome |-> Raised("FileNotFoundError"), fs |-> f]
     ELSE IF dirs.err # "ok" THEN [outcome |-> Raised(dirs.err), fs |-> dirs.fs]
     ELSE IF lerr # "ok" THEN [outcome |-> Raised(lerr), fs |-> dirs.fs]
     ELSE IF Repetida(i.opciones) THEN [outcome |-> Raised("TypeError"), fs |-> dirs.fs]
     ELSE IF wh.transcribe # "ok" THEN [outcome |-> Raised(wh.transcribe), fs |-> dirs.fs]
     ELSE IF text = << >> THEN [outcome |-> Raised("ValueError"), fs |-> dirs.fs]
     ELSE IF werr # "ok" THEN [outcome |-> Raised(werr), fs |-> dirs.fs]
     ELSE [outcome |-> Returned(Resolve(txt)), fs |-> WriteText(dirs.fs, Loc(txt), text)]

\* ------------------------------------------------------------------ claims
Started(p) == pc[p] \notin {"off", "main"}

InTrace(p, step) == \E k \in 1..Len(trace[p]) : trace[p][k] = step

\* The invocation raised while executing the given step.
RaisedAt(p, step) ==
  /\ outcome[p].kind = "raised"
  /\ trace[p] # << >>
  /\ trace[p][Len(trace[p])] = step

NodeAt(f, loc) == IF Exists(f, loc) THEN Some(f[loc]) ELSE None

\* The source named by the caller, as a location.
SrcLoc(p) == Loc(PathOf(inv[p].ruta_mp3))

\* The model's dictionary has no text, or its text is only white space.
NoUsableText(r) ==
  \/ "text" \notin DOMAIN r
  \/ \A k \in 1..Len(r.text) : r.text[k] \in {" ", "\n", "\t"}

\* C1: when the source path is not an existing regular file (absent, or a
\* directory) the invocation ends in FileNotFoundError at the validation step,
\* load_model and transcribe were never called, and the file system is what it
\* was before the invocation: no directory and no file was created or changed.
C1_SourceNotFound ==
  \A p \in Procs :
    (Started(p) /\ pc[p] # "validate" /\ ~IsFile(fs0, SrcLoc(p)))
      => /\ pc[p] = "done"
         /\ outcome[p] = Raised("FileNotFoundError")
         /\ trace[p] = <<"validate">>
         /\ loads[p] = << >>
         /\ calls[p] = << >>
         /\ fs = fs0

\* Reached: the source is a directory and the destination's parent is missing.
C1_Witness ==
  \E p \in Procs :
    /\ outcome[p] = Raised("FileNotFoundError")
    /\ IsDir(fs0, SrcLoc(p))
    /\ inv[p].ruta_txt = Some(Rel(<<out, result_txt>>))
    /\ ~Exists(fs, <<w, out>>)

\* C2: when transcribe returned a dictionary without text, or with a text that
\* is empty or only white space, the invocation raises ValueError at the check
\* after the call, and the destination is never written: the node at the
\* destination path is what it was before the invocation (absent or old file).
C2_EmptyText ==
  \A p \in Procs :
    ((pc[p] = "check" \/ InTrace(p, "check")) /\ NoUsableText(whisper[p].resultado))
      => /\ pc[p] \in {"check", "done"}
         /\ pc[p] = "done" => (outcome[p] = Raised("ValueError") /\ RaisedAt(p, "check"))
         /\ Len(calls[p]) = 1
         /\ NodeAt(fs, Loc(ruta_txt[p])) = NodeAt(fs0, Loc(ruta_txt[p]))

\* Reached: a white-space-only text, and an old transcript left untouched.
C2_Witness ==
  \E p \in Procs :
    /\ outcome[p] = Raised("ValueError")
    /\ "text" \in DOMAIN whisper[p].resultado
    /\ whisper[p].resultado.text = <<" ", " ">>
    /\ NodeAt(fs0, Loc(ruta_txt[p])) = Some(FileNode(OldData))

\* The model returned a text that is not empty after trimming.
UsableText(p) == InTrace(p, "check") /\ ~NoUsableText(whisper[p].resultado)

\* C3 as stated: with an existing source and a text that is non-empty after
\* trimming, the invocation ends with the destination file holding exactly the
\* trimmed text and returns the absolute resolved path of that file.
C3_AsStated ==
  \A p \in Procs :
    (pc[p] = "done" /\ UsableText(p))
      => /\ outcome[p] = Returned(Abs(Loc(ruta_txt[p])))
         /\ NodeAt(fs, Loc(ruta_txt[p])) = Some(FileNode(Strip(whisper[p].resultado.text)))

\* C3 amended: the same, provided the destination path does not name an
\* existing directory (the write then raises IsADirectoryError instead).
C3_WrittenUnlessDirectory ==
  \A p \in Procs :
    (pc[p] = "done" /\ UsableText(p) /\ ~IsDir(fs0, Loc(ruta_txt[p])))
      => /\ outcome[p] = Returned(Abs(Loc(ruta_txt[p])))
         /\ NodeAt(fs, Loc(ruta_txt[p])) = Some(FileNode(Strip(whisper[p].resultado.text)))

\* Reached: an old transcript replaced by the trimmed text of " x ".
C3_Witness ==
  \E p \in Procs :
    /\ outcome[p].kind = "returned"
    /\ whisper[p].resultado.text = <<" ", "x", " ">>
    /\ NodeAt(fs0, Loc(ruta_txt[p])) = Some(FileNode(OldData))
    /\ NodeAt(fs, Loc(ruta_txt[p])) = Some(FileNode(<<"x">>))
    /\ ~ruta_txt[p].abs

\* The name of the source with the text up to, not including, its last dot
\* (the whole name when it has no extension) followed by ".txt".
TxtName(name) ==
  LET dots == {k \in 2..(Len(name) - 1) : name[k] = Dot}
      cut  == IF dots = {} THEN Len(name) + 1
              ELSE CHOOSE k \in dots : \A j \in dots : j <= k
  IN SubSeq(name, 1, cut - 1) \o <<Dot, "txt">>

\* C4 as stated: when ruta_txt is omitted the returned path is the source path
\* with only its extension replaced by .txt.
C4_AsStated ==
  \A p \in Procs :
    (outcome[p].kind = "returned" /\ inv[p].ruta_txt = None)
      => LET src == PathOf(inv[p].ruta_mp3)
         IN outcome[p].value =
              [abs |-> src.abs,
               parts |-> Append(SubSeq(src.parts, 1, Len(src.parts) - 1),
                                TxtName(NameOf(src)))]

\* C4 amended: when ruta_txt is omitted the returned path is the absolute,
\* resolved form of the source path with only its extension replaced by .txt
\* (added, when the name has none): the directories are those of the resolved
\* source, the name differs only in the extension.
C4_ResolvedTxtSibling ==
  \A p \in Procs :
    (outcome[p].kind = "returned" /\ inv[p].ruta_txt = None)
      => LET src == SrcLoc(p)
         IN /\ outcome[p].value.abs
            /\ outcome[p].value.parts =
                 Append(SubSeq(src, 1, Len(src) - 1), TxtName(src[Len(src)]))

\* Reached: audio/nota.mp3 given relative, /w/audio/nota.txt returned.
C4_Witness ==
  \E p \in Procs :
    /\ outcome[p] = Returned(Abs(<<w, audio, <<"nota", Dot, "txt">> >>))
    /\ inv[p].ruta_mp3 = Rel(<<audio, nota_mp3>>)
    /\ inv[p].ruta_txt = None
    /\ IsFile(fs, <<w, audio, <<"nota", Dot, "txt">> >>)

\* Every directory on the way to the destination's parent, the parent included.
ParentChain(p) ==
  LET target == Loc(ParentOf(ruta_txt[p]))
  IN {Prefix(target, n) : n \in 0..Len(target)}

\* C5: once the mkdir step is over without error the destination's parent and
\* all its ancestors are directories, so they exist when the file is written;
\* if the parent was missing and no file stands in its way the step does not
\* fail, and the write that follows finds nothing to stop it and creates the
\* file; if the parent already was a directory the step changes nothing and
\* does not fail.
C5_ParentsBeforeWrite ==
  \A p \in Procs :
    LET target  == Loc(ParentOf(ruta_txt[p]))
        missing == ~Exists(fs0, target)
        blocked == \E l \in ParentChain(p) : IsFile(fs0, l)
    IN (Started(p) /\ pc[p] \notin {"validate", "dest"} /\ InTrace(p, "validate")
          /\ ~RaisedAt(p, "validate"))
         => /\ (pc[p] \in {"load", "transcribe", "check", "write", "return"}
                  \/ InTrace(p, "load"))
               => \A l \in ParentChain(p) : IsDir(fs, l)
            /\ (missing /\ ~blocked) => ~RaisedAt(p, "mkdir")
            /\ (missing /\ pc[p] = "write") => OpenForWrite(fs, Loc(ruta_txt[p])) = "ok"
            /\ (missing /\ InTrace(p, "write"))
               => /\ ~RaisedAt(p, "write")
                  /\ NodeAt(fs, Loc(ruta_txt[p])) = Some(FileNode(texto[p]))
            /\ IsDir(fs0, target)
               => /\ ~RaisedAt(p, "mkdir")
                  /\ (~InTrace(p, "write")) => fs = fs0

\* Reached: out/ and out/deep/ were both missing and the file is written.
C5_Witness ==
  \E p \in Procs :
    /\ pc[p] = "return"
    /\ ruta_txt[p] = Rel(<<out, deep, result_txt>>)
    /\ ~Exists(fs0, <<w, out>>)
    /\ IsDir(fs, <<w, out>>)
    /\ IsDir(fs, <<w, out, deep>>)
    /\ IsFile(fs, <<w, out, deep, result_txt>>)

\* The word "none" written in any mix of upper and lower case.
IsNoneWord(s) ==
  /\ Len(s) = 4
  /\ s[1] \in {"n", "N"}
  /\ s[2] \in {"o", "O"}
  /\ s[3] \in {"n", "N"}
  /\ s[4] \in {"e", "E"}

\* C6: from the command line, transcribe is called with no language hint
\* exactly when --lenguaje is "none" in some letter case; for any other value
\* the hint is that very string, and "es" when the option is omitted.
C6_CliLanguageHint ==
  \A p \in Procs :
    via[p] = "cli"
      => \A k \in 1..Len(calls[p]) :
           calls[p][k].language =
             (IF argv[p].lenguaje = None THEN Some(S_es)
              ELSE IF IsNoneWord(The(argv[p].lenguaje)) THEN None
              ELSE argv[p].lenguaje)

\* Reached: --lenguaje nOnE, and transcribe was called without a hint.
C6_Witness ==
  \E p \in Procs :
    /\ via[p] = "cli"
    /\ argv[p].lenguaje = Some(<<"n", "O", "n", "E">>)
    /\ Len(calls[p]) = 1
    /\ calls[p][1].language = None

\* The library error that ended the invocation, if one did.
LoadFailed(p) == InTrace(p, "load") /\ LoadModel(whisper[p], inv[p].modelo) # "ok"

TranscribeFailed(p) == calls[p] # << >> /\ whisper[p].transcribe # "ok"

\* C7: load_model and transcribe are each called at most once; when one of
\* them raises, the invocation ends at that step with that very error, nothing
\* is called afterwards, and the node at the destination path is what it was
\* before the invocation.
C7_ModelFailurePropagates ==
  \A p \in Procs :
    /\ Len(loads[p]) <= 1
    /\ Len(calls[p]) <= 1
    /\ LoadFailed(p)
         => /\ pc[p] = "done"
            /\ outcome[p] = Raised(LoadModel(whisper[p], inv[p].modelo))
            /\ RaisedAt(p, "load")
            /\ calls[p] = << >>
            /\ NodeAt(fs, Loc(ruta_txt[p])) = NodeAt(fs0, Loc(ruta_txt[p]))
    /\ TranscribeFailed(p)
         => /\ pc[p] = "done"
            /\ outcome[p] = Raised(whisper[p].transcribe)
            /\ RaisedAt(p, "transcribe")
            /\ NodeAt(fs, Loc(ruta_txt[p])) = NodeAt(fs0, Loc(ruta_txt[p]))

\* Reached: transcribe raised and an old transcript is left as it was.
C7_Witness ==
  \E p \in Procs :
    /\ outcome[p] = Raised("DecodeError")
    /\ Len(loads[p]) = 1
    /\ Len(calls[p]) = 1
    /\ NodeAt(fs, Loc(ruta_txt[p])) = Some(FileNode(OldData))

\* C9 as stated: every invocation whose model was loaded calls transcribe with
\* the source path, the caller's language hint and the caller's options, and
\* load_model was called with the caller's selector.
C9_AsStated ==
  \A p \in Procs :
    /\ InTrace(p, "load") => loads[p] = <<inv[p].modelo>>
    /\ InTrace(p, "transcribe")
         => calls[p] = << [audio |-> PathOf(inv[p].ruta_mp3),
                           language |-> inv[p].lenguaje,
                           kwargs |-> inv[p].opciones] >>

\* C9 amended: load_model is called with the caller's selector, whatever it
\* is; when the options have no key "language", transcribe is called with the
\* source path, the caller's hint and the caller's options unchanged; when
\* they have one, the call raises TypeError and transcribe is not entered.
C9_ForwardedUnlessRepeated ==
  \A p \in Procs :
    /\ InTrace(p, "load") => loads[p] = <<inv[p].modelo>>
    /\ (InTrace(p, "transcribe") /\ "language" \notin DOMAIN inv[p].opciones)
         => calls[p] = << [audio |-> PathOf(inv[p].ruta_mp3),
                           language |-> inv[p].lenguaje,
                           kwargs |-> inv[p].opciones] >>
    /\ (InTrace(p, "transcribe") /\ "language" \in DOMAIN inv[p].opciones)
         => calls[p] = << >> /\ outcome[p] = Raised("TypeError")

\* Reached: ./a.mp3, no hint and temperature=0 handed to transcribe.
C9_Witness ==
  \E p \in Procs :
    /\ inv[p].ruta_mp3 = Rel(<< <<Dot>>, a_mp3 >>)
    /\ inv[p].lenguaje = None
    /\ calls[p] = << [audio |-> Rel(<<a_mp3>>), language |-> None,
                      kwargs |-> [temperature |-> 0]] >>
    /\ loads[p] = <<S_base>>

\* The statements of the function, in program order.
Order == <<"validate", "mkdir", "load", "transcribe", "check", "write", "return">>

\* C10: the completed steps are always an initial part of the program order,
\* so each runs at most once and none runs before an earlier one; the
\* destination is changed only after a check that found a non-empty text; an
\* error in mkdir comes before any load; an error of the model or of the check
\* leaves the node at the destination path as it was.
C10_LinearOrder ==
  \A p \in Procs :
    /\ Len(trace[p]) <= Len(Order)
    /\ \A k \in 1..Len(trace[p]) : trace[p][k] = Order[k]
    /\ (Started(p) /\ pc[p] # "done") => outcome[p].kind = "running"
    /\ (pc[p] = "done" /\ outcome[p].kind = "returned") => trace[p] = Order
    /\ (InTrace(p, "mkdir")
          /\ NodeAt(fs, Loc(ruta_txt[p])) # NodeAt(fs0, Loc(ruta_txt[p])))
         => /\ InTrace(p, "write")
            /\ Len(calls[p]) = 1
            /\ texto[p] # << >>
            /\ fs[Loc(ruta_txt[p])] = FileNode(texto[p])
    /\ RaisedAt(p, "mkdir") => loads[p] = << >>
    /\ (RaisedAt(p, "load") \/ RaisedAt(p, "transcribe") \/ RaisedAt(p, "check"))
         => NodeAt(fs, Loc(ruta_txt[p])) = NodeAt(fs0, Loc(ruta_txt[p]))

\* Reached: the check failed after out/ had been created, and no file exists.
C10_Witness ==
  \E p \in Procs :
    /\ RaisedAt(p, "check")
    /\ ~Exists(fs0, <<w, out>>)
    /\ IsDir(fs, <<w, out>>)
    /\ DOMAIN fs = DOMAIN fs0 \cup {<<w, out>>}
    /\ ruta_txt[p] = Rel(<<out, result_txt>>)

\* The arguments, source and destination of invocation p, from its inputs.
CalledBy(p) == Called(argv[p], inv[p], via[p])

SrcOf(p) == Loc(PathOf(CalledBy(p).ruta_mp3))

DestOf(p) == Loc(Destino(PathOf(CalledBy(p).ruta_mp3), CalledBy(p).ruta_txt))

\* The contents of the file at loc, if there is a file.
FileAt(f, loc) == IF IsFile(f, loc) THEN Some(f[loc].data) ELSE None

\* Invocation p ended as it would have ended running on its own from fs0, and
\* its destination file holds what it would have held.
AsAlone(p) ==
  LET alone == Alone(fs0, CalledBy(p), whisper[p])
  IN /\ outcome[p] = alone.outcome
     /\ FileAt(fs, DestOf(p)) = FileAt(alone.fs, DestOf(p))

\* Location a is b or a directory location above b.
OnChainOf(a, b) == Len(a) <= Len(b) /\ Prefix(b, Len(a)) = a

\* C8 as stated: two concurrent invocations with different destination paths
\* each end as they would alone, with the same destination contents.
C8_AsStated ==
  ((\A p \in Procs : pc[p] = "done") /\ DestOf(1) # DestOf(2))
    => \A p \in Procs : AsAlone(p)

\* Neither destination is the other invocation's source or destination, nor a
\* location above it.
Apart ==
  \A p \in Procs : \A q \in Procs \ {p} :
    ~OnChainOf(DestOf(p), DestOf(q)) /\ ~OnChainOf(DestOf(p), SrcOf(q))

\* C8 amended: two concurrent invocations whose destination paths differ, and
\* where neither destination is the other's source path or a location above
\* the other's source or destination, each end as they would alone, with the
\* same destination contents, under every interleaving.
C8_IndependentWhenApart ==
  ((\A p \in Procs : pc[p] = "done") /\ Apart)
    => \A p \in Procs : AsAlone(p)

\* Reached: both invocations wrote below out/, which neither found at first.
C8_Witness ==
  /\ \A p \in Procs : outcome[p].kind = "returned"
  /\ ~Exists(fs0, <<w, out>>)
  /\ DestOf(1) = <<w, out, result_txt>>
  /\ DestOf(2) = <<w, out, deep, result_txt>>
  /\ fs[DestOf(1)] = FileNode(<<"x">>)
  /\ fs[DestOf(2)] = FileNode(<<"x", "x">>)

====
